---- MODULE Spec2Model ----
(***************************************************************************)
(* GhostGraph: the application state machine of App.tsx (phases, blueprint *)
(* ingestion with link sanitization, MVP generation, persistence) and the  *)
(* derived views of the graph (FileTree root detection and expansion,      *)
(* export path resolution, README tree listing, archive assembly).         *)
(***************************************************************************)
EXTENDS Integers, Sequences, FiniteSets, TLC

\* ------------------------------------------------------------------ bounds
MaxRawNodes == 2      \* nodes in a generator payload (application machine)
MaxLinks == 2         \* links in a generator payload (application machine)
MaxMessages == 4      \* length of the architect conversation
MaxNodes == 3         \* nodes of a graph handed to the tree view
MaxExportNodes == 2   \* nodes of a graph handed to the exporter

\* ------------------------------------------------------------ JS values
\* null and undefined (a missing JSON field) are one value: no code of the
\* repository tells them apart (!x, x == null, x || d treat them alike).
Absent == "<absent>"

\* JavaScript truthiness of an optional string.
Truthy(s) == s # Absent /\ s # ""

\* A nullable object is a sequence of length 0 (null) or 1.
Null == <<>>
Some(v) == <<v>>
IsNull(o) == o = <<>>
Val(o) == o[1]

\* ---------------------------------------------------------------- types.ts
INPUT == "INPUT"
REFINEMENT == "REFINEMENT"
GENERATING == "GENERATING"
VISUALIZATION == "VISUALIZATION"

FILE == "FILE"
FOLDER == "FOLDER"
SERVICE == "SERVICE"

NodeData(id, name, type, description, parentId, content) ==
  [id |-> id, name |-> name, type |-> type, description |-> description,
   parentId |-> parentId, content |-> content]

LinkData(source, target) == [source |-> source, target |-> target, type |-> "IMPORT"]

GraphData(nodes, links) == [nodes |-> nodes, links |-> links]

\* ----------------------------------------------------------- small helpers
Range(s) == {s[i] : i \in DOMAIN s}

SeqsUpTo(S, n) == UNION {[1..k -> S] : k \in 0..n}

\* Array.prototype.find(n => n.id === id): first match or null.
FindNode(nodes, id) ==
  LET hits == {i \in DOMAIN nodes : nodes[i].id = id}
  IN IF hits = {} THEN Null
     ELSE Some(nodes[CHOOSE i \in hits : \A j \in hits : i <= j])

\* ------------------------------------------- blueprint sanitization (App)
\* const nodeIds = new Set(data.nodes.map(n => n.id))
nodeIds(data) == {data.nodes[i].id : i \in DOMAIN data.nodes}

linkIsValid(data, link) == link.source \in nodeIds(data) /\ link.target \in nodeIds(data)

validLinksKeepAll(data) == data.links

\* data.links.filter(link => sourceExists && targetExists)
validLinks(data) == SelectSeq(data.links, LAMBDA link : linkIsValid(data, link))

sanitizedDataUnfiltered(data) == data

\* { ...data, links: validLinks }
sanitizedData(data) == [data EXCEPT !.links = validLinks(data)]

\* ----------------------------------------------------------- input domains
\* Node ids of generated graphs, by position in the node list.
IdOf(i) == <<"a", "b", "c", "d", "e", "f">>[i]

\* An id no node carries (the endpoint of a dangling reference).
Ghost == "zz"

\* Payloads of generateProjectBlueprint in the application machine: up to
\* MaxRawNodes nodes (FILE or FOLDER), up to MaxLinks links whose endpoints
\* may dangle.
RawNodeLists ==
  UNION {{[i \in 1..n |-> NodeData(IdOf(i), IdOf(i), ty[i], Absent, Absent, Absent)] :
            ty \in [1..n -> {FILE, FOLDER}]} : n \in 0..MaxRawNodes}

\* Links between the first two ids in both directions, and links whose
\* target or source is the id of no node.
RawLinks == {LinkData(IdOf(1), IdOf(2)), LinkData(IdOf(2), IdOf(1)),
             LinkData(IdOf(1), Ghost), LinkData(Ghost, IdOf(2))}

RawGraphs == {GraphData(ns, ls) : ns \in RawNodeLists, ls \in SeqsUpTo(RawLinks, MaxLinks)}

\* Text returned by generateFileCode: response.text || "// No code generated"
\* is never empty (part_000:828).
Codes == {"code"}

\* response.text of the code model: undefined, empty, or code.
ResponseTexts == {Absent, ""} \cup Codes

Ideas == {"", "idea"}

\* Architect replies: a question set (isComplete false) or the final one.
ModelReplies == {"model:questions", "model:complete"}

\* ------------------------------------------------------------------ state
VARIABLES
  phase,         \* AppPhase
  initialIdea,   \* string
  messages,      \* ChatMessage[] (roles, and isComplete of model replies)
  isLoading,     \* boolean
  graphData,     \* GraphData | null
  selectedNode,  \* NodeData | null
  showMVPModal,  \* boolean
  mvpProgress,   \* {current, total, file} | null
  storage,       \* localStorage['ghostgraph_state'] | null
  pending,       \* the request awaited by the running async handler
  data,          \* the payload held by the blueprint continuation that ran last
  mvp,           \* locals of the running handleGenerateMVP | null
  lastOp,        \* the handler step taken last
  tree,          \* what FileTree rendered last
  zip,           \* what handleExportZip produced last
  focusTrigger,  \* number, the focus token handed to GraphVisualizer
  sim,           \* the objects GraphVisualizer holds in its refs
  isSurpriseMode \* boolean, the auto-pilot of the refinement chat

vars == <<phase, initialIdea, messages, isLoading, graphData, selectedNode,
          showMVPModal, mvpProgress, storage, pending, data, mvp, lastOp, tree, zip,
          focusTrigger, sim, isSurpriseMode>>

\* Nothing rendered / exported yet.
NoTree == [component |-> "none", rootNodes |-> <<>>, rendered |-> <<>>]

NoZip == [variant |-> "none", threw |-> FALSE, paths |-> <<>>, treeString |-> <<>>,
          fileCalls |-> <<>>, folderCalls |-> <<>>, files |-> <<>>, folders |-> {},
          hasManifest |-> FALSE, manifest |-> <<>>]

\* ---------------------------------------- layout (GraphVisualizer.tsx)
\* Points of the plane: an (x, y) pair, which the code always reads and
\* writes together; NoPoint is undefined/null.
MaxPoints == 2
Points == 1..MaxPoints
NoPoint == 0

\* Largest focus token of a behaviour (Date.now() grows without bound).
MaxFocus == 2

\* Pointers that can each run a drag gesture (event.active counts the
\* others).
Pointers == {"touch1", "touch2"}

\* simulation.alphaTarget(0.3), in tenths; a new simulation has target 0.
AlphaReheat == 3

\* event.active of d3-drag: the gestures of the drag behaviour that are
\* active, the one the event is about left out.
active(s, p) == Cardinality({q \in Pointers \ {p} : s.gestures[q] # 0})

\* The drag event delivered by the step taken last, if it was one.
NoEvent == [pointer |-> "none", at |-> NoPoint]

\* Not mounted: phase is not VISUALIZATION or graphData is null, App.tsx:537.
NoSim == [mounted |-> FALSE, shared |-> FALSE, nodes |-> <<>>, links |-> <<>>,
          gestures |-> [p \in Pointers |-> 0], event |-> NoEvent, alphaTarget |-> 0,
          camera |-> [kind |-> "none", at |-> NoPoint, token |-> 0]]

processDataInPlace(g) ==
  [shared |-> TRUE,
   nodes |-> [i \in DOMAIN g.nodes |-> [id |-> g.nodes[i].id, pos |-> NoPoint, pin |-> NoPoint]],
   links |-> [k \in DOMAIN g.links |-> [source |-> g.links[k].source, target |-> g.links[k].target]]]

\* data.nodes.map(d => ({ ...d })) and data.links.map(d => ({ ...d })),
\* GraphVisualizer.tsx:330-331: fresh objects, of which the model keeps the
\* id and the fields the simulation adds.
processData(g) ==
  [shared |-> FALSE,
   nodes |-> [i \in DOMAIN g.nodes |-> [id |-> g.nodes[i].id, pos |-> NoPoint, pin |-> NoPoint]],
   links |-> [k \in DOMAIN g.links |-> [source |-> g.links[k].source, target |-> g.links[k].target]]]

\* d3.forceSimulation(nodes) gives every node a position at once (a fixed
\* spiral by index); forceLink(links).id(d => d.id) replaces the ids held
\* by the link objects by the node objects (here their index).
forceSimulation(objects) ==
  [objects EXCEPT
     !.nodes = [i \in DOMAIN objects.nodes |->
                  [objects.nodes[i] EXCEPT !.pos = ((i - 1) % MaxPoints) + 1]],
     !.links = [k \in DOMAIN objects.links |->
                  [source |-> CHOOSE i \in DOMAIN objects.nodes :
                                objects.nodes[i].id = objects.links[k].source,
                   target |-> CHOOSE i \in DOMAIN objects.nodes :
                                objects.nodes[i].id = objects.links[k].target]]]

\* The effect keyed on [data], GraphVisualizer.tsx:302-444: the svg is
\* emptied, the zoom is set to its initial transform and a new simulation is
\* built from copies of the data; the objects of the simulation before it
\* (stopped by the cleanup) are dropped with their gestures.
\* A link of which forceLink cannot find an endpoint makes it throw
\* ("node not found") inside the effect, and nothing is left drawn.
graphEffect(g) ==
  IF \A k \in DOMAIN g.links : linkIsValid(g, g.links[k])
  THEN LET objects == forceSimulation(processData(g))
       IN [mounted |-> TRUE, shared |-> objects.shared,
           nodes |-> objects.nodes, links |-> objects.links,
           gestures |-> [p \in Pointers |-> 0], event |-> NoEvent, alphaTarget |-> 0,
           camera |-> [kind |-> "initial", at |-> NoPoint, token |-> 0]]
  ELSE NoSim

\* What the render of App after a setGraphData or a phase change leaves in
\* the visualizer.
visualizerOf(p, g) ==
  IF p = VISUALIZATION /\ ~IsNull(g) THEN graphEffect(Val(g)) ELSE NoSim

focusEffectUnguarded(s, token, sel) ==
  IF token # 0 /\ s.mounted
  THEN LET hits == {i \in DOMAIN s.nodes : ~IsNull(sel) /\ s.nodes[i].id = Val(sel).id}
       IN [s EXCEPT !.camera =
             [kind |-> "focus",
              at |-> IF hits = {} THEN NoPoint ELSE s.nodes[CHOOSE i \in hits : TRUE].pos,
              token |-> token]]
  ELSE s

\* The focus effect keyed on [focusTrigger, selectedNodeId],
\* GraphVisualizer.tsx:461-482: a transition of the zoom transform that
\* puts the node's position at the centre of the viewport.
focusEffect(s, token, sel) ==
  IF token # 0 /\ ~IsNull(sel) /\ Val(sel).id # "" /\ s.mounted
  THEN LET hits == {i \in DOMAIN s.nodes : s.nodes[i].id = Val(sel).id}
       IN IF hits # {} /\ s.nodes[CHOOSE i \in hits : \A j \in hits : i <= j].pos # NoPoint
          THEN [s EXCEPT !.camera =
                  [kind |-> "focus",
                   at |-> s.nodes[CHOOSE i \in hits : \A j \in hits : i <= j].pos,
                   token |-> token]]
          ELSE s
  ELSE s

\* ------------------------------------------------------ persistence (App)
SaveEffectUnguarded(p, idea, msgs, g, st) ==
  Some([phase |-> p, initialIdea |-> idea, messages |-> msgs, graphData |-> g])

\* Save-to-storage effect, App.tsx:89-103, run after a render that changed
\* phase, initialIdea, messages or graphData.
SaveEffect(p, idea, msgs, g, st) ==
  IF p # INPUT \/ idea # ""
  THEN Some([phase |-> p, initialIdea |-> idea, messages |-> msgs, graphData |-> g])
  ELSE st

\* Sync-selected-node effect, App.tsx:111-118.
SyncSelected(sel, g) ==
  IF ~IsNull(sel) /\ ~IsNull(g)
  THEN LET freshNode == FindNode(Val(g).nodes, Val(sel).id)
       IN IF ~IsNull(freshNode) THEN freshNode ELSE sel
  ELSE sel

Init ==
  /\ phase = INPUT
  /\ initialIdea = ""
  /\ messages = <<>>
  /\ isLoading = FALSE
  /\ graphData = Null
  /\ selectedNode = Null
  /\ showMVPModal = FALSE
  /\ mvpProgress = Null
  /\ storage = Null
  /\ pending = "none"
  /\ data = Null
  /\ mvp = Null
  /\ lastOp = "mount"
  /\ tree = NoTree
  /\ zip = NoZip
  /\ focusTrigger = 0
  /\ sim = visualizerOf(phase, graphData)
  /\ isSurpriseMode = FALSE

MountWithoutGraph(st) ==
  LET parsed == Val(st)
      p == IF IsNull(st) THEN INPUT ELSE parsed.phase
      idea == IF IsNull(st) THEN "" ELSE parsed.initialIdea
      msgs == IF IsNull(st) THEN <<>> ELSE parsed.messages
  IN /\ phase' = p
     /\ initialIdea' = idea
     /\ messages' = msgs
     /\ graphData' = Null
     /\ storage' = SaveEffect(p, idea, msgs, Null, SaveEffect(INPUT, "", <<>>, Null, st))
     /\ isLoading' = FALSE
     /\ selectedNode' = Null
     /\ showMVPModal' = FALSE
     /\ mvpProgress' = Null
     /\ pending' = "none"
     /\ data' = Null
     /\ mvp' = Null
     /\ tree' = NoTree
     /\ zip' = NoZip
     /\ focusTrigger' = 0
     /\ sim' = visualizerOf(p, Null)
     /\ isSurpriseMode' = FALSE

\* Page (re)load: in-memory state is rebuilt, requests in flight are lost,
\* then the load effect (App.tsx:65-86) and the save effect run.
Mount(st) ==
  LET parsed == Val(st)
      p == IF IsNull(st) THEN INPUT ELSE parsed.phase
      idea == IF IsNull(st) THEN "" ELSE parsed.initialIdea
      msgs == IF IsNull(st) THEN <<>> ELSE parsed.messages
      g == IF IsNull(st) THEN Null ELSE parsed.graphData
  IN /\ phase' = p
     /\ initialIdea' = idea
     /\ messages' = msgs
     /\ graphData' = g
     /\ storage' = SaveEffect(p, idea, msgs, g, SaveEffect(INPUT, "", <<>>, Null, st))
     /\ isLoading' = FALSE
     /\ selectedNode' = Null
     /\ showMVPModal' = FALSE
     /\ mvpProgress' = Null
     /\ pending' = "none"
     /\ data' = Null
     /\ mvp' = Null
     /\ tree' = NoTree
     /\ zip' = NoZip
     /\ focusTrigger' = 0
     /\ sim' = visualizerOf(p, g)
     /\ isSurpriseMode' = FALSE

Reload ==
  /\ Mount(storage)
  /\ lastOp' = "Reload"

\* handleReset, App.tsx:105-108: removeItem, then reload.
handleReset ==
  /\ phase # INPUT
  /\ Mount(Null)
  /\ lastOp' = "handleReset"

\* Common frame of a handler step that leaves the MVP run alone.
KeepMvp == UNCHANGED <<showMVPModal, mvpProgress, mvp>>

LastMessage == IF messages = <<>> THEN "none" ELSE messages[Len(messages)]

\* ------------------------------------------------------- refinement (App)
\* The idea textarea of the INPUT screen (setInitialIdea).
TypeIdea(s) ==
  /\ phase = INPUT
  /\ pending = "none"
  /\ s # initialIdea
  /\ initialIdea' = s
  /\ storage' = SaveEffect(phase, s, messages, graphData, storage)
  /\ lastOp' = "TypeIdea"
  /\ UNCHANGED <<focusTrigger, sim, isSurpriseMode>>
  /\ data' = Null
  /\ UNCHANGED <<phase, messages, isLoading, graphData, selectedNode, pending, tree, zip>>
  /\ KeepMvp

\* handleStartRefinement up to its await, App.tsx:149-164.
handleStartRefinement ==
  /\ phase = INPUT
  /\ initialIdea # ""
  /\ ~isLoading
  /\ phase' = REFINEMENT
  /\ isLoading' = TRUE
  /\ messages' = <<"user">>
  /\ pending' = "start"
  /\ storage' = SaveEffect(REFINEMENT, initialIdea, <<"user">>, graphData, storage)
  /\ lastOp' = "handleStartRefinement"
  /\ UNCHANGED <<focusTrigger, sim, isSurpriseMode>>
  /\ data' = Null
  /\ UNCHANGED <<initialIdea, graphData, selectedNode, tree, zip>>
  /\ KeepMvp

\* sendMessageToArchitect resolved, App.tsx:165,170 and 228,232.
ArchitectResolved(reply) ==
  /\ pending \in {"start", "send"}
  /\ messages' = Append(messages, reply)
  /\ isLoading' = FALSE
  /\ pending' = "none"
  /\ storage' = SaveEffect(phase, initialIdea, messages', graphData, storage)
  /\ lastOp' = "ArchitectResolved"
  /\ UNCHANGED <<focusTrigger, sim, isSurpriseMode>>
  /\ data' = Null
  /\ UNCHANGED <<phase, initialIdea, graphData, selectedNode, tree, zip>>
  /\ KeepMvp

\* sendMessageToArchitect rejected: the catch and finally blocks,
\* App.tsx:166-171 (start) and 229-233 (send).
ArchitectRejected ==
  /\ pending \in {"start", "send"}
  /\ phase' = IF pending = "start" THEN INPUT ELSE phase
  /\ isLoading' = FALSE
  /\ pending' = "none"
  /\ storage' = SaveEffect(phase', initialIdea, messages, graphData, storage)
  /\ lastOp' = "ArchitectRejected"
  /\ UNCHANGED <<focusTrigger, sim>>
  /\ isSurpriseMode' = FALSE
  /\ data' = Null
  /\ UNCHANGED <<initialIdea, messages, graphData, selectedNode, tree, zip>>
  /\ KeepMvp

\* handleSendMessage up to its await, App.tsx:223-227; offered by
\* ArchitectChat under the last, incomplete model message.
handleSendMessage ==
  /\ phase = REFINEMENT
  /\ ~isLoading
  /\ LastMessage = "model:questions"
  /\ Len(messages) + 2 <= MaxMessages
  /\ messages' = Append(messages, "user")
  /\ isLoading' = TRUE
  /\ pending' = "send"
  /\ storage' = SaveEffect(phase, initialIdea, messages', graphData, storage)
  /\ lastOp' = "handleSendMessage"
  /\ UNCHANGED <<focusTrigger, sim, isSurpriseMode>>
  /\ data' = Null
  /\ UNCHANGED <<phase, initialIdea, graphData, selectedNode, tree, zip>>
  /\ KeepMvp

\* ------------------------------------------------ surprise mode (App)
\* An entry of SURPRISE_PROMPTS, App.tsx:20-26 (none is empty).
SurprisePrompts == {"idea"}

\* handleSurpriseMe, App.tsx:175-180: the idea is set, the auto-pilot is
\* switched on and handleStartRefinement(randomIdea) runs up to its await.
handleSurpriseMe(randomIdea) ==
  /\ phase = INPUT
  /\ ~isLoading
  /\ initialIdea' = randomIdea
  /\ isSurpriseMode' = TRUE
  /\ phase' = REFINEMENT
  /\ isLoading' = TRUE
  /\ messages' = <<"user">>
  /\ pending' = "start"
  /\ storage' = SaveEffect(REFINEMENT, randomIdea, <<"user">>, graphData, storage)
  /\ lastOp' = "handleSurpriseMe"
  /\ UNCHANGED <<focusTrigger, sim>>
  /\ data' = Null
  /\ UNCHANGED <<graphData, selectedNode, tree, zip>>
  /\ KeepMvp

\* The timeout callback of the auto-pilot effect, App.tsx:183-220, on a
\* model message that is not complete: setIsLoading(true) and the await of
\* generateUserProxyResponse.  (On a complete one the callback calls
\* handleGenerateBlueprint, which the disjunct of Next models.)
AutoPilotAnswer ==
  /\ isSurpriseMode /\ ~isLoading /\ phase = REFINEMENT
  /\ LastMessage = "model:questions"
  /\ Len(messages) + 2 <= MaxMessages
  /\ isLoading' = TRUE
  /\ pending' = "proxy"
  /\ lastOp' = "AutoPilotAnswer"
  /\ UNCHANGED <<focusTrigger, sim, isSurpriseMode>>
  /\ data' = Null
  /\ UNCHANGED <<phase, initialIdea, messages, graphData, selectedNode, storage, tree, zip>>
  /\ KeepMvp

\* The callback on a complete model message, App.tsx:201-203.
AutoPilotGenerate ==
  /\ isSurpriseMode /\ ~isLoading /\ phase = REFINEMENT
  /\ LastMessage = "model:complete"
  /\ phase' = GENERATING
  /\ isSurpriseMode' = FALSE
  /\ pending' = "blueprint"
  /\ storage' = SaveEffect(GENERATING, initialIdea, messages, graphData, storage)
  /\ lastOp' = "AutoPilotGenerate"
  /\ UNCHANGED <<focusTrigger, sim>>
  /\ data' = Null
  /\ UNCHANGED <<initialIdea, messages, isLoading, graphData, selectedNode, tree, zip>>
  /\ KeepMvp

\* generateUserProxyResponse rejected: the catch block of the callback,
\* App.tsx:212-215 (console.error and setIsSurpriseMode(false), nothing
\* else).
ProxyRejected ==
  /\ pending = "proxy"
  /\ isSurpriseMode' = FALSE
  /\ pending' = "none"
  /\ lastOp' = "ProxyRejected"
  /\ UNCHANGED <<focusTrigger, sim>>
  /\ data' = Null
  /\ UNCHANGED <<phase, initialIdea, messages, isLoading, graphData, selectedNode,
                 storage, tree, zip>>
  /\ KeepMvp

\* generateUserProxyResponse resolved: handleSendMessage(autoResponse) up
\* to its await, App.tsx:208 and 223-227.
ProxyResolved ==
  /\ pending = "proxy"
  /\ messages' = Append(messages, "user")
  /\ isLoading' = TRUE
  /\ pending' = "send"
  /\ storage' = SaveEffect(phase, initialIdea, messages', graphData, storage)
  /\ lastOp' = "ProxyResolved"
  /\ UNCHANGED <<focusTrigger, sim, isSurpriseMode>>
  /\ data' = Null
  /\ UNCHANGED <<phase, initialIdea, graphData, selectedNode, tree, zip>>
  /\ KeepMvp

\* ------------------------------------------------ blueprint ingestion (App)
\* handleGenerateBlueprint up to its await, App.tsx:236-242; offered by
\* ArchitectChat under the last, complete model message.
handleGenerateBlueprint ==
  /\ phase = REFINEMENT
  /\ pending = "none"
  /\ LastMessage = "model:complete"
  /\ phase' = GENERATING
  /\ pending' = "blueprint"
  /\ storage' = SaveEffect(GENERATING, initialIdea, messages, graphData, storage)
  /\ lastOp' = "handleGenerateBlueprint"
  /\ UNCHANGED <<focusTrigger, sim>>
  /\ isSurpriseMode' = FALSE
  /\ data' = Null
  /\ UNCHANGED <<initialIdea, messages, isLoading, graphData, selectedNode, tree, zip>>
  /\ KeepMvp

\* generateProjectBlueprint resolved with a payload: App.tsx:244-259, and
\* the catch block 260-263 when initBlueprintChat (ai.chats.create,
\* part_000:835-843) throws after setGraphData has been called.
BlueprintResolved(raw, chatThrows) ==
  /\ pending = "blueprint"
  /\ data' = Some(raw)
  /\ graphData' = Some(sanitizedData(raw))
  /\ phase' = IF chatThrows THEN REFINEMENT ELSE VISUALIZATION
  /\ pending' = "none"
  /\ selectedNode' = SyncSelected(selectedNode, graphData')
  /\ storage' = SaveEffect(phase', initialIdea, messages, graphData', storage)
  /\ lastOp' = IF chatThrows THEN "BlueprintChatThrew" ELSE "BlueprintResolved"
  /\ focusTrigger' = focusTrigger
  /\ sim' = focusEffect(visualizerOf(phase', graphData'), focusTrigger, selectedNode')
  /\ isSurpriseMode' = IF chatThrows THEN FALSE ELSE isSurpriseMode
  /\ UNCHANGED <<initialIdea, messages, isLoading, tree, zip>>
  /\ KeepMvp

\* generateProjectBlueprint rejected, or its payload is not a graph (the
\* data.nodes.map of App.tsx:245 throws): the catch block, App.tsx:260-263.
BlueprintRejected ==
  /\ pending = "blueprint"
  /\ phase' = REFINEMENT
  /\ pending' = "none"
  /\ storage' = SaveEffect(REFINEMENT, initialIdea, messages, graphData, storage)
  /\ lastOp' = "BlueprintRejected"
  /\ UNCHANGED <<focusTrigger, sim>>
  /\ isSurpriseMode' = FALSE
  /\ data' = Null
  /\ UNCHANGED <<initialIdea, messages, isLoading, graphData, selectedNode, tree, zip>>
  /\ KeepMvp

\* Payloads whose node list is missing or is not an array (JSON.parse
\* returns whatever the model wrote, part_000:789-791).
NotAList == "<object>"
MalformedPayloads == {[nodes |-> Absent, links |-> <<>>], [nodes |-> NotAList, links |-> <<>>]}

\* generateProjectBlueprint resolved with a payload of which data.nodes.map
\* (App.tsx:245) throws a TypeError: the catch block, App.tsx:260-263.
BlueprintMalformed(raw) ==
  /\ pending = "blueprint"
  /\ raw.nodes \in {Absent, NotAList}
  /\ data' = Some(raw)
  /\ phase' = REFINEMENT
  /\ pending' = "none"
  /\ storage' = SaveEffect(REFINEMENT, initialIdea, messages, graphData, storage)
  /\ lastOp' = "BlueprintMalformed"
  /\ UNCHANGED <<focusTrigger, sim>>
  /\ isSurpriseMode' = FALSE
  /\ UNCHANGED <<initialIdea, messages, isLoading, graphData, selectedNode, tree, zip>>
  /\ KeepMvp

\* ------------------------------------------------------- selection (App)
\* onNodeSelect / FileTree onSelect, App.tsx:542 and 596.
SelectNode(i) ==
  /\ phase = VISUALIZATION
  /\ ~IsNull(graphData)
  /\ IsNull(mvpProgress)
  /\ i \in DOMAIN Val(graphData).nodes
  /\ selectedNode' = Some(Val(graphData).nodes[i])
  /\ selectedNode' # selectedNode
  /\ lastOp' = "SelectNode"
  /\ focusTrigger' = focusTrigger
  /\ UNCHANGED isSurpriseMode
  /\ sim' = focusEffect(sim, focusTrigger, selectedNode')
  /\ data' = Null
  /\ UNCHANGED <<phase, initialIdea, messages, isLoading, graphData, storage, pending, tree, zip>>
  /\ KeepMvp

\* --------------------------------------------------- MVP generation (App)
\* graphData.nodes.filter(n => n.type === FileType.FILE), as positions.
filesToGenerateAllNodes(g) == [k \in DOMAIN g.nodes |-> k]

filesToGenerate(g) ==
  LET idx == {i \in DOMAIN g.nodes : g.nodes[i].type = FILE}
      nth[k \in 1..Cardinality(idx)] ==
        CHOOSE i \in idx : Cardinality({j \in idx : j < i}) = k - 1
  IN nth

\* A template literal's rendering of a possibly undefined value.
Template(s) == IF s = Absent THEN "undefined" ELSE s

\* The value generateFileCode resolves with, part_000:828.
generateFileCode(text) == IF Truthy(text) THEN text ELSE "// No code generated"

dependenciesOutgoingOnly(g, node) ==
  LET incident == SelectSeq(g.links, LAMBDA l : l.source = node.id)
      entry(l) == LET otherNode == FindNode(g.nodes, l.target)
                  IN IF IsNull(otherNode) THEN ""
                     ELSE Val(otherNode).name \o " (" \o Template(Val(otherNode).description) \o ")"
  IN SelectSeq([k \in DOMAIN incident |-> entry(incident[k])], Truthy)

\* The dependencies handed to generateFileCode for node, App.tsx:279-286.
dependencies(g, node) ==
  LET incident == SelectSeq(g.links, LAMBDA l : l.source = node.id \/ l.target = node.id)
      entry(l) == LET otherId == IF l.source = node.id THEN l.target ELSE l.source
                      otherNode == FindNode(g.nodes, otherId)
                  IN IF IsNull(otherNode) THEN ""
                     ELSE Val(otherNode).name \o " (" \o Template(Val(otherNode).description) \o ")"
  IN SelectSeq([k \in DOMAIN incident |-> entry(incident[k])], Truthy)

\* setMvpProgress and the arguments of the generateFileCode call of the i-th
\* iteration, App.tsx:275-288.
mvpStep(g, files, i, updatedNodes) ==
  [graphData |-> g, files |-> files, i |-> i, updatedNodes |-> updatedNodes,
   node |-> g.nodes[files[i]].id,
   dependencies |-> dependencies(g, g.nodes[files[i]])]

mvpProgressAt(g, files, i) ==
  [current |-> i, total |-> Len(files), file |-> g.nodes[files[i]].name]

\* updatedNodes.findIndex(n => n.id === id), 0 when there is none.
findIndex(nodes, id) ==
  LET hits == {i \in DOMAIN nodes : nodes[i].id = id}
  IN IF hits = {} THEN 0 ELSE CHOOSE i \in hits : \A j \in hits : i <= j

assignContentToFirst(nodes, id, code) ==
  [nodes EXCEPT ![1] = [@ EXCEPT !.content = code]]

\* updatedNodes[nodeIndex] = { ...updatedNodes[nodeIndex], content: code }
assignContent(nodes, id, code) ==
  LET nodeIndex == findIndex(nodes, id)
  IN IF nodeIndex = 0 THEN nodes
     ELSE [nodes EXCEPT ![nodeIndex] = [@ EXCEPT !.content = code]]

OpenMVPModalWhileRunning ==
  /\ phase = VISUALIZATION
  /\ ~IsNull(graphData)
  /\ ~showMVPModal
  /\ showMVPModal' = TRUE
  /\ lastOp' = "OpenMVPModal"
  /\ UNCHANGED <<focusTrigger, sim, isSurpriseMode>>
  /\ data' = Null
  /\ UNCHANGED <<phase, initialIdea, messages, isLoading, graphData, selectedNode,
                 mvpProgress, storage, pending, mvp, tree, zip>>

\* The Generate MVP dock button, App.tsx:551-559.
OpenMVPModal ==
  /\ phase = VISUALIZATION
  /\ ~IsNull(graphData)
  /\ IsNull(mvpProgress)
  /\ ~showMVPModal
  /\ showMVPModal' = TRUE
  /\ lastOp' = "OpenMVPModal"
  /\ UNCHANGED <<focusTrigger, sim, isSurpriseMode>>
  /\ data' = Null
  /\ UNCHANGED <<phase, initialIdea, messages, isLoading, graphData, selectedNode,
                 mvpProgress, storage, pending, mvp, tree, zip>>

\* The Abort button of the confirmation modal, App.tsx:835-840.
AbortMVPModal ==
  /\ showMVPModal
  /\ showMVPModal' = FALSE
  /\ lastOp' = "AbortMVPModal"
  /\ UNCHANGED <<focusTrigger, sim, isSurpriseMode>>
  /\ data' = Null
  /\ UNCHANGED <<phase, initialIdea, messages, isLoading, graphData, selectedNode,
                 mvpProgress, storage, pending, mvp, tree, zip>>

\* handleGenerateMVP up to its first await, App.tsx:266-288; with no FILE
\* node the loop body never runs and the handler completes in one step
\* (App.tsx:294-300).
handleGenerateMVP ==
  /\ showMVPModal
  /\ ~IsNull(graphData)
  /\ showMVPModal' = FALSE
  /\ LET g == Val(graphData)
         files == filesToGenerate(g)
     IN IF Len(files) = 0
        THEN /\ graphData' = Some([g EXCEPT !.nodes = g.nodes])
             /\ mvpProgress' = Null
             /\ mvp' = Null
             /\ pending' = "none"
        ELSE /\ graphData' = graphData
             /\ mvpProgress' = Some(mvpProgressAt(g, files, 1))
             /\ mvp' = Some(mvpStep(g, files, 1, g.nodes))
             /\ pending' = "code"
  /\ selectedNode' = SyncSelected(selectedNode, graphData')
  /\ storage' = SaveEffect(phase, initialIdea, messages, graphData', storage)
  /\ lastOp' = "handleGenerateMVP"
  /\ focusTrigger' = focusTrigger
  /\ UNCHANGED isSurpriseMode
  /\ sim' = IF pending' = "none" THEN visualizerOf(phase, graphData') ELSE sim
  /\ data' = Null
  /\ UNCHANGED <<phase, initialIdea, messages, isLoading, tree, zip>>

\* generateFileCode resolved for the i-th file: App.tsx:288-293, then the
\* next iteration up to its await, or App.tsx:294-300 after the last one.
CodeResolved(text) ==
  /\ pending = "code"
  /\ LET run == Val(mvp)
         code == generateFileCode(text)
         node == run.graphData.nodes[run.files[run.i]]
         updatedNodes == assignContent(run.updatedNodes, node.id, code)
     IN IF run.i = Len(run.files)
        THEN /\ graphData' = Some([run.graphData EXCEPT !.nodes = updatedNodes])
             /\ mvpProgress' = Null
             /\ mvp' = Null
             /\ pending' = "none"
        ELSE /\ graphData' = graphData
             /\ mvpProgress' = Some(mvpProgressAt(run.graphData, run.files, run.i + 1))
             /\ mvp' = Some(mvpStep(run.graphData, run.files, run.i + 1, updatedNodes))
             /\ pending' = "code"
  /\ selectedNode' = SyncSelected(selectedNode, graphData')
  /\ storage' = SaveEffect(phase, initialIdea, messages, graphData', storage)
  /\ lastOp' = "CodeResolved"
  /\ focusTrigger' = focusTrigger
  /\ UNCHANGED isSurpriseMode
  /\ sim' = IF pending' = "none" THEN visualizerOf(phase, graphData') ELSE sim
  /\ data' = Null
  /\ UNCHANGED <<phase, initialIdea, messages, isLoading, showMVPModal, tree, zip>>

CodeRejectedKeepsProgress ==
  /\ pending = "code"
  /\ mvp' = Null
  /\ pending' = "none"
  /\ lastOp' = "CodeRejected"
  /\ UNCHANGED <<focusTrigger, sim>>
  /\ isSurpriseMode' = FALSE
  /\ data' = Null
  /\ UNCHANGED <<phase, initialIdea, messages, isLoading, graphData, selectedNode,
                 showMVPModal, mvpProgress, storage, tree, zip>>

\* generateFileCode rejected: the catch and finally blocks, App.tsx:297-301.
CodeRejected ==
  /\ pending = "code"
  /\ mvpProgress' = Null
  /\ mvp' = Null
  /\ pending' = "none"
  /\ lastOp' = "CodeRejected"
  /\ UNCHANGED <<focusTrigger, sim>>
  /\ isSurpriseMode' = FALSE
  /\ data' = Null
  /\ UNCHANGED <<phase, initialIdea, messages, isLoading, graphData, selectedNode,
                 showMVPModal, storage, tree, zip>>

\* ------------------------------------------ layout steps (GraphVisualizer)
\* graphData as the simulation leaves it: untouched when the simulation
\* works on copies; when it works on the objects of data themselves, its
\* writes (coordinates on the nodes, node objects in the links) are writes
\* to graphData.
dataAfter(s) ==
  IF s.shared /\ ~IsNull(graphData)
  THEN LET g == Val(graphData)
       IN Some([g EXCEPT
                  !.nodes = [i \in DOMAIN g.nodes |->
                               [x |-> s.nodes[i].pos, fx |-> s.nodes[i].pin] @@ g.nodes[i]],
                  !.links = s.links])
  ELSE graphData

\* Frame of a step of the visualizer.
LayoutFrame ==
  /\ data' = Null
  /\ UNCHANGED <<phase, initialIdea, messages, isLoading, selectedNode, showMVPModal,
                 mvpProgress, storage, pending, mvp, tree, zip, focusTrigger,
                 isSurpriseMode>>

\* The progress overlay and the confirmation modal cover the viewport
\* (App.tsx:789-792, 825-826): no pointer event reaches the svg.
Covered == ~IsNull(mvpProgress) \/ showMVPModal

\* One tick of the d3 simulation (the timer of forceSimulation,
\* GraphVisualizer.tsx:333): a pinned node is put at its pin, the forces
\* put every other node anywhere.
tick ==
  /\ sim.mounted
  /\ sim.nodes # <<>>
  /\ \E to \in [DOMAIN sim.nodes -> Points] :
       sim' = [sim EXCEPT !.event = NoEvent, !.nodes =
                 [i \in DOMAIN sim.nodes |->
                    [sim.nodes[i] EXCEPT !.pos = IF sim.nodes[i].pin # NoPoint
                                                  THEN sim.nodes[i].pin ELSE to[i]]]]
  /\ graphData' = dataAfter(sim')
  /\ lastOp' = "tick"
  /\ LayoutFrame

dragstartedNoReheat(p, i) ==
  /\ sim.mounted
  /\ ~Covered
  /\ sim.gestures[p] = 0
  /\ i \in DOMAIN sim.nodes
  /\ sim' = [sim EXCEPT !.gestures[p] = i, !.nodes[i].pin = sim.nodes[i].pos,
                         !.event = NoEvent]
  /\ graphData' = dataAfter(sim')
  /\ lastOp' = "dragstarted"
  /\ LayoutFrame

\* dragstarted, GraphVisualizer.tsx:422-427, for a gesture of pointer p on
\* node i: if (!event.active) simulation.alphaTarget(0.3).restart();
\* d.fx = d.x; d.fy = d.y.
dragstarted(p, i) ==
  /\ sim.mounted
  /\ ~Covered
  /\ sim.gestures[p] = 0
  /\ i \in DOMAIN sim.nodes
  /\ sim' = [sim EXCEPT !.gestures[p] = i, !.nodes[i].pin = sim.nodes[i].pos,
                         !.alphaTarget = IF active(sim, p) = 0 THEN AlphaReheat ELSE @,
                         !.event = NoEvent]
  /\ graphData' = dataAfter(sim')
  /\ lastOp' = "dragstarted"
  /\ LayoutFrame

\* dragged, GraphVisualizer.tsx:429-432: d.fx = event.x; d.fy = event.y.
dragged(p, event) ==
  /\ sim.mounted
  /\ sim.gestures[p] # 0
  /\ sim' = [sim EXCEPT !.nodes[sim.gestures[p]].pin = event,
                         !.event = [pointer |-> p, at |-> event]]
  /\ graphData' = dataAfter(sim')
  /\ lastOp' = "dragged"
  /\ LayoutFrame

dragendedKeepPin(p) ==
  /\ sim.mounted
  /\ sim.gestures[p] # 0
  /\ sim' = [sim EXCEPT !.gestures[p] = 0, !.event = NoEvent,
                         !.alphaTarget = IF active(sim, p) = 0 THEN 0 ELSE @]
  /\ graphData' = dataAfter(sim')
  /\ lastOp' = "dragended"
  /\ LayoutFrame

\* dragended, GraphVisualizer.tsx:434-439:
\* if (!event.active) simulation.alphaTarget(0); d.fx = null; d.fy = null.
dragended(p) ==
  /\ sim.mounted
  /\ sim.gestures[p] # 0
  /\ sim' = [sim EXCEPT !.gestures[p] = 0, !.nodes[sim.gestures[p]].pin = NoPoint,
                         !.alphaTarget = IF active(sim, p) = 0 THEN 0 ELSE @,
                         !.event = NoEvent]
  /\ graphData' = dataAfter(sim')
  /\ lastOp' = "dragended"
  /\ LayoutFrame

\* The zoom handler, GraphVisualizer.tsx:315-320, on a wheel or pan
\* gesture of the user.
zoomed ==
  /\ sim.mounted
  /\ ~Covered
  /\ sim' = [sim EXCEPT !.camera = [kind |-> "user", at |-> NoPoint, token |-> 0],
                         !.event = NoEvent]
  /\ graphData' = dataAfter(sim')
  /\ lastOp' = "zoomed"
  /\ LayoutFrame

\* The Center Graph button of the details panel, App.tsx:702-707
\* (setFocusTrigger(Date.now())), and the focus effect that the new token
\* triggers.
CenterGraph ==
  /\ phase = VISUALIZATION
  /\ ~IsNull(graphData)
  /\ ~IsNull(selectedNode)
  /\ ~Covered
  /\ focusTrigger < MaxFocus
  /\ focusTrigger' = focusTrigger + 1
  /\ sim' = focusEffect(sim, focusTrigger', selectedNode)
  /\ graphData' = dataAfter(sim')
  /\ lastOp' = "CenterGraph"
  /\ data' = Null
  /\ UNCHANGED <<phase, initialIdea, messages, isLoading, selectedNode, showMVPModal,
                 mvpProgress, storage, pending, mvp, tree, zip, isSurpriseMode>>

\* ------------------------------------------------- tree view (FileTree)
\* The outcome of a recursion that never returns.
Diverges == "<diverges>"

rootNodesNoParentOnly(nodes) == SelectSeq(nodes, LAMBDA n : ~Truthy(n.parentId))

\* nodes.filter(n => !n.parentId || !nodes.find(p => p.id === n.parentId)),
\* part_001:99 and FileTree.tsx:76.
rootNodes(nodes) ==
  SelectSeq(nodes, LAMBDA n : ~Truthy(n.parentId) \/ IsNull(FindNode(nodes, n.parentId)))

childrenFirstOnly(nodes, id) ==
  LET all == SelectSeq(nodes, LAMBDA n : n.parentId = id)
  IN IF all = <<>> THEN <<>> ELSE <<Head(all)>>

\* allNodes.filter(n => n.parentId === node.id), part_001:18 and 104.
children(nodes, id) == SelectSeq(nodes, LAMBDA n : n.parentId = id)

topLevelAlwaysUnwrap(nodes) ==
  LET roots == rootNodes(nodes)
  IN IF Len(roots) = 1 /\ roots[1].name \in {".", "root"}
     THEN children(nodes, roots[1].id)
     ELSE roots

\* The top-level sequence of FileTree with the single-root unwrap,
\* part_001:95-108.
topLevel(nodes) ==
  LET roots == rootNodes(nodes)
  IN IF Len(roots) = 1 /\ (roots[1].name = "." \/ roots[1].name = "root")
     THEN LET dotRoot == roots[1]
              kids == children(nodes, dotRoot.id)
          IN IF Len(kids) > 0 THEN kids ELSE roots
     ELSE roots

\* The top-level sequence of the FileTree without unwrap, FileTree.tsx:74-76.
topLevelPlain(nodes) == rootNodes(nodes)

\* The ids shown by a fully open <TreeNode>: the node, then its children's
\* subtrees in node-list order (part_001:11-93).  A branch deeper than the
\* node count revisits a node, so the recursion never ends.
RECURSIVE TreeNode(_, _, _)
RECURSIVE TreeNodes(_, _, _)
TreeNodeClosed(nodes, node, depth) == <<node.id>>

TreeNode(nodes, node, depth) ==
  IF depth >= Len(nodes) THEN <<Diverges>>
  ELSE <<node.id>> \o TreeNodes(nodes, children(nodes, node.id), depth + 1)

\* children.map(child => <TreeNode node={child} depth={depth + 1} />)
TreeNodes(nodes, list, depth) ==
  IF list = <<>> THEN <<>>
  ELSE TreeNode(nodes, Head(list), depth) \o TreeNodes(nodes, Tail(list), depth)

Ids(list) == [i \in DOMAIN list |-> list[i].id]

\* <FileTree nodes={graphData.nodes}/> rendered with every folder open.
RenderFileTree ==
  /\ phase = VISUALIZATION
  /\ ~IsNull(graphData)
  /\ LET nodes == Val(graphData).nodes
     IN tree' = [component |-> "part_001",
                 rootNodes |-> Ids(topLevel(nodes)),
                 rendered |-> TreeNodes(nodes, topLevel(nodes), 0)]
  /\ lastOp' = "RenderFileTree"
  /\ UNCHANGED <<focusTrigger, sim, isSurpriseMode>>
  /\ data' = Null
  /\ UNCHANGED <<phase, initialIdea, messages, isLoading, graphData, selectedNode,
                 showMVPModal, mvpProgress, storage, pending, mvp, zip>>

\* The FileTree of FileTree.tsx (no unwrap) rendered with every folder open.
RenderFileTreePlain ==
  /\ phase = VISUALIZATION
  /\ ~IsNull(graphData)
  /\ LET nodes == Val(graphData).nodes
     IN tree' = [component |-> "FileTree.tsx",
                 rootNodes |-> Ids(topLevelPlain(nodes)),
                 rendered |-> TreeNodes(nodes, topLevelPlain(nodes), 0)]
  /\ lastOp' = "RenderFileTreePlain"
  /\ UNCHANGED <<focusTrigger, sim, isSurpriseMode>>
  /\ data' = Null
  /\ UNCHANGED <<phase, initialIdea, messages, isLoading, graphData, selectedNode,
                 showMVPModal, mvpProgress, storage, pending, mvp, zip>>

\* ------------------------------------------------ export (handleExportZip)
\* new Map(graphData.nodes.map(n => [n.id, n])).get(id): with a repeated
\* id the later node wins.
nodeMapGet(nodes, id) ==
  LET hits == {i \in DOMAIN nodes : nodes[i].id = id}
  IN IF hits = {} THEN Null
     ELSE Some(nodes[CHOOSE i \in hits : \A j \in hits : i >= j])

RECURSIVE getPathAlwaysSlash(_, _, _)
getPathAlwaysSlash(nodes, nodeId, depth) ==
  LET node == nodeMapGet(nodes, nodeId)
  IN IF depth > Len(nodes) THEN Diverges
     ELSE IF IsNull(node) THEN ""
     ELSE IF ~Truthy(Val(node).parentId) THEN Val(node).name
     ELSE LET parentPath == getPathAlwaysSlash(nodes, Val(node).parentId, depth + 1)
          IN IF parentPath = Diverges THEN Diverges
             ELSE parentPath \o "/" \o Val(node).name

\* getPath, App.tsx:309-314 and part_000:182-187.  A chain longer than the
\* node count revisits a node: the recursion never returns.
RECURSIVE getPath(_, _, _)
getPath(nodes, nodeId, depth) ==
  LET node == nodeMapGet(nodes, nodeId)
  IN IF depth > Len(nodes) THEN Diverges
     ELSE IF IsNull(node) THEN ""
     ELSE LET parentPath == IF Truthy(Val(node).parentId)
                            THEN getPath(nodes, Val(node).parentId, depth + 1)
                            ELSE ""
          IN IF parentPath = Diverges THEN Diverges
             ELSE IF parentPath # "" THEN parentPath \o "/" \o Val(node).name
             ELSE Val(node).name

\* "  ".repeat(depth)
RECURSIVE repeat(_, _)
repeat(str, count) == IF count = 0 THEN "" ELSE str \o repeat(str, count - 1)

\* The box-drawing markers of the listing, in ASCII.
LastMarker == "L-- "
MidMarker == "+-- "

\* One line of treeString (prefix, node.name, newline); id records which node
\* the line was written for.
TreeLine(node, depth, isLast) ==
  [prefix |-> repeat("  ", depth) \o (IF isLast THEN LastMarker ELSE MidMarker),
   name |-> node.name, id |-> node.id]

\* buildTreeString, App.tsx:317-325 and part_000:191-199; the filter is
\* n.parentId == parentId, which null and undefined both satisfy for null.
RECURSIVE buildTreeString(_, _, _)
RECURSIVE buildTreeLines(_, _, _, _)
buildTreeString(nodes, parentId, depth) ==
  IF depth > Len(nodes) THEN <<TreeLine([name |-> Diverges, id |-> Diverges], depth, TRUE)>>
  ELSE buildTreeLines(nodes, SelectSeq(nodes, LAMBDA n : n.parentId = parentId), 1, depth)

\* children.forEach((node, index) => ...)
buildTreeLines(nodes, kids, index, depth) ==
  IF index > Len(kids) THEN <<>>
  ELSE <<TreeLine(kids[index], depth, index = Len(kids))>>
         \o buildTreeString(nodes, kids[index].id, depth + 1)
         \o buildTreeLines(nodes, kids, index + 1, depth)

\* The body written for a FILE node without content, App.tsx:336.
placeholderApp(node) ==
  "// TODO: Implement " \o node.name \o "\n// " \o Template(node.description)

\* The body written for a FILE node without content, part_000:247 (no node
\* of the model carries a techStack).
placeholderPart000(node) ==
  "/*\n * File: " \o node.name \o "\n * Description: " \o Template(node.description)
    \o "\n * Tech Stack: undefined\n * \n * TODO: Implement functionality.\n */"

placeholder(variant, node) ==
  IF variant = "App.tsx" THEN placeholderApp(node) ELSE placeholderPart000(node)

fileBodyIgnoreContent(variant, node) == placeholder(variant, node)

\* node.content || placeholder
fileBody(variant, node) ==
  IF Truthy(node.content) THEN node.content ELSE placeholder(variant, node)

isFolderKindFolderOnly(node) == node.type = FOLDER

\* node.type === FileType.FOLDER || node.type === FileType.SERVICE
isFolderKind(node) == node.type = FOLDER \/ node.type = SERVICE

\* The two handleExportZip of the sources: App.tsx:304-348 (README only)
\* and part_000:173-273 (README and the INSTRUCTIONS.md manifest).
ExportVariants == {"App.tsx", "part_000"}

\* zip.file(path, content): a later entry at the same path replaces the
\* earlier one.
zipFile(z, path, content, id) ==
  [z EXCEPT !.files = (path :> content) @@ @,
            !.fileCalls = Append(@, [path |-> path, body |-> content, id |-> id])]

\* zip.folder(path)
zipFolder(z, path, id) ==
  [z EXCEPT !.folders = @ \cup {path},
            !.folderCalls = Append(@, [path |-> path, id |-> id])]

\* instructions += a section headed by the path (part_000:251)
addSection(z, path) ==
  IF z.hasManifest THEN [z EXCEPT !.manifest = Append(@, path)] ELSE z

exportNodeAllFiles(z, nodes, node) ==
  LET path == getPath(nodes, node.id, 0)
  IN addSection(zipFile(z, path, fileBody(z.variant, node), node.id), path)

\* The body of graphData.nodes.forEach, App.tsx:331-339 and
\* part_000:240-262.
exportNode(z, nodes, node) ==
  LET path == getPath(nodes, node.id, 0)
  IN IF isFolderKind(node)
     THEN zipFolder(z, path, node.id)
     ELSE addSection(zipFile(z, path, fileBody(z.variant, node), node.id), path)

RECURSIVE exportNodes(_, _, _)
exportNodes(z, nodes, i) ==
  IF i > Len(nodes) THEN z
  ELSE exportNodes(exportNode(z, nodes, nodes[i]), nodes, i + 1)

exportZipNeverThrows(variant, g) ==
  LET nodes == g.nodes
      paths == [i \in DOMAIN nodes |-> getPath(nodes, nodes[i].id, 0)]
      empty == [NoZip EXCEPT !.variant = variant, !.hasManifest = (variant = "part_000")]
  IN exportNodes([empty EXCEPT !.paths = paths,
                               !.treeString = buildTreeString(nodes, Absent, 0)], nodes, 1)

\* What handleExportZip hands to zip.generateAsync, or threw when one of its
\* recursions never returns; paths then holds the getPath calls of the
\* forEach (App.tsx:331-332) up to the one that did not return.
exportZip(variant, g) ==
  LET nodes == g.nodes
      paths == [i \in DOMAIN nodes |-> getPath(nodes, nodes[i].id, 0)]
      treeString == buildTreeString(nodes, Absent, 0)
      listingThrew == \E k \in DOMAIN treeString : treeString[k].id = Diverges
      stuck == {i \in DOMAIN paths : paths[i] = Diverges}
      threw == stuck # {} \/ listingThrew
      empty == [NoZip EXCEPT !.variant = variant, !.hasManifest = (variant = "part_000")]
  IN IF threw
     THEN [empty EXCEPT
             !.threw = TRUE,
             !.paths = IF listingThrew THEN <<>>
                       ELSE SubSeq(paths, 1, CHOOSE i \in stuck : \A j \in stuck : i <= j)]
     ELSE exportNodes([empty EXCEPT !.paths = paths, !.treeString = treeString], nodes, 1)

\* The Export ZIP dock button, App.tsx:563-570.
handleExportZip(variant) ==
  /\ phase = VISUALIZATION
  /\ ~IsNull(graphData)
  /\ IsNull(mvpProgress)
  /\ ~showMVPModal
  /\ zip' = exportZip(variant, Val(graphData))
  /\ lastOp' = "handleExportZip"
  /\ UNCHANGED <<focusTrigger, sim, isSurpriseMode>>
  /\ data' = Null
  /\ UNCHANGED <<phase, initialIdea, messages, isLoading, graphData, selectedNode,
                 showMVPModal, mvpProgress, storage, pending, mvp, tree>>

\* ------------------------------------------------------- specifications
\* The application from a fresh mount with nothing stored.
Next ==
  \/ \E s \in Ideas : TypeIdea(s)
  \/ handleStartRefinement
  \/ \E reply \in ModelReplies : ArchitectResolved(reply)
  \/ ArchitectRejected
  \/ handleSendMessage
  \/ \E randomIdea \in SurprisePrompts : handleSurpriseMe(randomIdea)
  \/ AutoPilotAnswer
  \/ AutoPilotGenerate
  \/ ProxyResolved
  \/ ProxyRejected
  \/ handleGenerateBlueprint
  \/ \E raw \in RawGraphs, chatThrows \in BOOLEAN : BlueprintResolved(raw, chatThrows)
  \/ BlueprintRejected
  \/ \E raw \in MalformedPayloads : BlueprintMalformed(raw)
  \/ \E i \in 1..MaxRawNodes : SelectNode(i)
  \/ OpenMVPModal
  \/ AbortMVPModal
  \/ handleGenerateMVP
  \/ \E text \in Codes : CodeResolved(text)
  \/ CodeRejected
  \/ RenderFileTree
  \/ RenderFileTreePlain
  \/ \E variant \in ExportVariants : handleExportZip(variant)
  \/ Reload
  \/ handleReset

Spec == Init /\ [][Next]_vars

\* A state of the VISUALIZATION phase showing graph g: what a successful
\* blueprint generation leaves behind.
ShowingSelected(g, sel) ==
  /\ phase = VISUALIZATION
  /\ initialIdea = "idea"
  /\ messages = <<"user", "model:complete">>
  /\ isLoading = FALSE
  /\ graphData = Some(g)
  /\ selectedNode = sel
  /\ showMVPModal = FALSE
  /\ mvpProgress = Null
  /\ storage = SaveEffect(VISUALIZATION, "idea", <<"user", "model:complete">>, Some(g), Null)
  /\ pending = "none"
  /\ data = Null
  /\ mvp = Null
  /\ lastOp = "mount"
  /\ tree = NoTree
  /\ zip = NoZip
  /\ focusTrigger = 0
  /\ sim = visualizerOf(phase, graphData)
  /\ isSurpriseMode = FALSE

\* The VISUALIZATION screen of graph g just mounted, nothing selected.
Showing(g) == ShowingSelected(g, Null)

\* Graphs for the tree view and the path resolution: up to MaxNodes nodes
\* with unique ids (the first id may be the empty string), names drawn from
\* NamesAt, and a parentId that is absent, empty, dangling, or the id of any
\* node of the graph (itself included).
TreeIdAt(i, blankFirst) == IF blankFirst /\ i = 1 THEN "" ELSE IdOf(i)

TreeParents(n, blankFirst) ==
  {Absent, "", Ghost} \cup {TreeIdAt(j, blankFirst) : j \in 1..n}

HierarchyNodes(n, blankFirst, name, parent) ==
  [i \in 1..n |-> NodeData(TreeIdAt(i, blankFirst), name[i], FILE, Absent, parent[i], Absent)]

InitHierarchy(NamesAt(_)) ==
  \E n \in 0..MaxNodes, blankFirst \in BOOLEAN :
    \E name \in [1..n -> UNION {NamesAt(i) : i \in 1..n}],
       parent \in [1..n -> TreeParents(n, blankFirst)] :
      /\ \A i \in 1..n : name[i] \in NamesAt(i)
      /\ Showing(GraphData(HierarchyNodes(n, blankFirst, name, parent), <<>>))

\* Names for the tree view: the two sentinels and an ordinary name.
TreeNamesAt(i) == IF i = 1 THEN {".", "root", "src"} ELSE {"root", "src"}

InitTree == InitHierarchy(TreeNamesAt)

NextTree ==
  \/ RenderFileTree
  \/ RenderFileTreePlain

\* The two FileTree components applied to every graph of the domain.
SpecTree == InitTree /\ [][NextTree]_vars

\* Names for the path resolution: ordinary names and the empty string.
PathNamesAt(i) == IF i = 1 THEN {"", "src", "app.ts"} ELSE {"", "src"}

InitPath == InitHierarchy(PathNamesAt)

NextPath == \E variant \in ExportVariants : handleExportZip(variant)

\* handleExportZip (paths and README listing) applied to every graph of the
\* domain.
SpecPath == InitPath /\ [][NextPath]_vars

\* Graphs for the archive assembly: up to MaxExportNodes nodes of every
\* kind, with or without content and description, two names (so paths can
\* collide), parentId absent or the id of a node of the graph.
ExportKinds ==
  {[type |-> FILE, content |-> Absent, description |-> Absent],
   [type |-> FILE, content |-> Absent, description |-> "entry point"],
   [type |-> FILE, content |-> "code", description |-> "entry point"],
   [type |-> FOLDER, content |-> Absent, description |-> "entry point"],
   [type |-> FOLDER, content |-> "code", description |-> "entry point"],
   [type |-> SERVICE, content |-> Absent, description |-> "entry point"],
   [type |-> SERVICE, content |-> "code", description |-> Absent]}

ExportNames == {"src", "app.ts"}

ExportNodes(n, name, kind, parent) ==
  [i \in 1..n |-> NodeData(IdOf(i), name[i], kind[i].type, kind[i].description,
                           parent[i], kind[i].content)]

InitExport ==
  \E n \in 0..MaxExportNodes :
    \E name \in [1..n -> ExportNames],
       kind \in [1..n -> ExportKinds],
       parent \in [1..n -> {Absent} \cup {IdOf(j) : j \in 1..n}] :
      Showing(GraphData(ExportNodes(n, name, kind, parent), <<>>))

NextExport == \E variant \in ExportVariants : handleExportZip(variant)

\* handleExportZip applied to every graph of InitExport.
SpecExport == InitExport /\ [][NextExport]_vars

\* Graphs for the MVP run: up to MaxMvpNodes nodes of every kind, with or
\* without description, none with content (a blueprint has no content
\* field), and up to MaxMvpLinks links between nodes of the graph, a
\* self-link included.
MaxMvpNodes == 3
MaxMvpLinks == 2

MvpKinds ==
  {[type |-> FILE, description |-> Absent],
   [type |-> FILE, description |-> "entry point"],
   [type |-> FOLDER, description |-> "entry point"],
   [type |-> SERVICE, description |-> Absent]}

MvpNodes(n, kind) ==
  [i \in 1..n |-> NodeData(IdOf(i), IdOf(i) \o ".ts", kind[i].type, kind[i].description,
                           Absent, Absent)]

MvpLinks(n) ==
  {l \in {LinkData(IdOf(1), IdOf(2)), LinkData(IdOf(2), IdOf(1)),
          LinkData(IdOf(1), IdOf(1)), LinkData(IdOf(3), IdOf(2))} :
     \E i, j \in 1..n : l.source = IdOf(i) /\ l.target = IdOf(j)}

InitMvp ==
  \E n \in 0..MaxMvpNodes :
    \E kind \in [1..n -> MvpKinds], ls \in SeqsUpTo(MvpLinks(n), MaxMvpLinks) :
      Showing(GraphData(MvpNodes(n, kind), ls))

NextMvp ==
  \/ OpenMVPModal
  \/ AbortMVPModal
  \/ handleGenerateMVP
  \/ \E text \in ResponseTexts : CodeResolved(text)
  \/ CodeRejected

\* MVP generation runs on every graph of InitMvp.
SpecMvp == InitMvp /\ [][NextMvp]_vars

\* The graphs of InitMvp without links (the progress indicator does not
\* read them).
InitProgress ==
  \E n \in 0..MaxMvpNodes :
    \E kind \in [1..n -> MvpKinds] : Showing(GraphData(MvpNodes(n, kind), <<>>))

\* A generateFileCode request that is awaited settles: it resolves or it
\* rejects.
CodeSettles == (\E text \in Codes : CodeResolved(text)) \/ CodeRejected

NextProgress ==
  \/ OpenMVPModal
  \/ AbortMVPModal
  \/ handleGenerateMVP
  \/ \E text \in Codes : CodeResolved(text)
  \/ CodeRejected
  \/ Reload

\* MVP runs, every request of which settles.
SpecProgress == InitProgress /\ [][NextProgress]_vars /\ WF_vars(CodeSettles)

\* Graphs for the layout: up to MaxSimNodes FILE nodes, with or without
\* a link between the first two.
MaxSimNodes == 2

SimNodes(n) == MvpNodes(n, [i \in 1..n |-> [type |-> FILE, description |-> Absent]])

SimGraphs ==
  {g \in {GraphData(SimNodes(n), ls) :
            n \in 0..MaxSimNodes, ls \in {<<>>, <<LinkData(IdOf(1), IdOf(2))>>}} :
     \A k \in DOMAIN g.links : linkIsValid(g, g.links[k])}

InitSim == \E g \in SimGraphs : Showing(g)

NextDrag ==
  \/ tick
  \/ \E p \in Pointers, i \in 1..MaxSimNodes : dragstarted(p, i)
  \/ \E p \in Pointers, event \in Points : dragged(p, event)
  \/ \E p \in Pointers : dragended(p)

\* Drag gestures on a running simulation.
SpecDrag == InitSim /\ [][NextDrag]_vars

NextLayout ==
  \/ tick
  \/ \E i \in 1..MaxSimNodes : dragstarted("touch1", i)
  \/ \E event \in Points : dragged("touch1", event)
  \/ dragended("touch1")
  \/ OpenMVPModal
  \/ AbortMVPModal
  \/ handleGenerateMVP
  \/ \E text \in Codes : CodeResolved(text)
  \/ CodeRejected

\* MVP runs on a graph whose layout the user and the simulation change.
SpecLayout == InitSim /\ [][NextLayout]_vars

\* A selection left over from an earlier graph: the node is in no graph of
\* the domain (the VISUALIZATION screen of part_000 can be left for
\* REFINEMENT, part_000:589, and a new blueprint generated with the
\* selection kept).
StaleNode == NodeData(Ghost, "old.ts", FILE, Absent, Absent, Absent)

InitFocus == \E g \in SimGraphs, sel \in {Null, Some(StaleNode)} : ShowingSelected(g, sel)

NextFocus ==
  \/ tick
  \/ zoomed
  \/ \E i \in 1..MaxSimNodes : SelectNode(i)
  \/ CenterGraph

\* Selection and focus requests on a running simulation.
SpecFocus == InitFocus /\ [][NextFocus]_vars

NextViews ==
  \/ tick
  \/ \E i \in 1..MaxSimNodes : dragstarted("touch1", i)
  \/ \E event \in Points : dragged("touch1", event)
  \/ dragended("touch1")
  \/ \E i \in 1..MaxSimNodes : SelectNode(i)
  \/ CenterGraph
  \/ RenderFileTree
  \/ handleExportZip("App.tsx")

\* Every derived view of a graph: tree, layout, selection, focus, export.
SpecViews == InitSim /\ [][NextViews]_vars

\* ================================================================ claims
\* The positions, in increasing order, of the links of G whose source and
\* target are both ids of nodes of G.
KeptPositions(G) ==
  {i \in DOMAIN G.links :
     /\ \E j \in DOMAIN G.nodes : G.nodes[j].id = G.links[i].source
     /\ \E j \in DOMAIN G.nodes : G.nodes[j].id = G.links[i].target}

KeptLinks(G) ==
  [k \in 1..Cardinality(KeptPositions(G)) |->
     G.links[CHOOSE i \in KeptPositions(G) :
               Cardinality({j \in KeptPositions(G) : j < i}) = k - 1]]

JustIngested == lastOp \in {"BlueprintResolved", "BlueprintChatThrew"}

\* C1: when a blueprint payload G has just been ingested, the links of
\* graphData are exactly the links of G whose source and target are both
\* ids of nodes of G, in their original order (so a subset of G.links, no
\* dangling link kept, no valid link dropped), and the node list of
\* graphData is the node list of G.
C1_SanitizedLinksAreTheValidLinksInOrder ==
  JustIngested =>
    /\ ~IsNull(data) /\ ~IsNull(graphData)
    /\ Val(graphData).links = KeptLinks(Val(data))
    /\ Val(graphData).nodes = Val(data).nodes

\* A payload with nodes [a, b] whose first link is valid and whose second
\* link dangles has been ingested, and only the first link is left.
C1_Witness ==
  /\ lastOp = "BlueprintResolved"
  /\ Len(Val(data).nodes) = 2
  /\ Val(data).links = <<LinkData(IdOf(1), IdOf(2)), LinkData(IdOf(1), Ghost)>>
  /\ Val(graphData).links = <<LinkData(IdOf(1), IdOf(2))>>

HasOnlyValidLinks(g) ==
  \A i \in DOMAIN g.links :
    /\ \E j \in DOMAIN g.nodes : g.nodes[j].id = g.links[i].source
    /\ \E j \in DOMAIN g.nodes : g.nodes[j].id = g.links[i].target

\* C2: in every reachable state, a non-null graphData (and the graphData of
\* the stored snapshot, which a reload restores) has no link whose source or
\* target is not the id of one of its nodes.
C2_LinkValidity ==
  /\ ~IsNull(graphData) => HasOnlyValidLinks(Val(graphData))
  /\ (~IsNull(storage) /\ ~IsNull(Val(storage).graphData)) =>
        HasOnlyValidLinks(Val(Val(storage).graphData))

\* A graph with a link and generated content has been restored on mount.
C2_Witness ==
  /\ lastOp = "Reload"
  /\ ~IsNull(graphData)
  /\ Len(Val(graphData).links) >= 1
  /\ \E i \in DOMAIN Val(graphData).nodes : Val(graphData).nodes[i].content # Absent

\* C3 (as claimed): every step that ends handleGenerateBlueprint in its
\* catch block (the request rejected, the payload malformed, or
\* initBlueprintChat threw) leaves graphData as it was and sets phase to
\* REFINEMENT.
C3_FailedIngestionLeavesGraphUntouched ==
  [][(pending = "blueprint" /\ lastOp' \in {"BlueprintRejected", "BlueprintChatThrew"})
       => (graphData' = graphData /\ phase' = REFINEMENT)]_vars

\* ------------------------------------------------------------ tree claims
\* The elements of seq at the positions of P, in increasing order.
Pick(seq, P) ==
  [k \in 1..Cardinality(P) |->
     seq[CHOOSE i \in P : Cardinality({j \in P : j < i}) = k - 1]]

IdsAt(nodes, P) == [k \in 1..Cardinality(P) |-> Pick(nodes, P)[k].id]

HasNode(nodes, id) == \E j \in DOMAIN nodes : nodes[j].id = id

\* Positions of the nodes without a parent reference (absent, null or the
\* empty string) or whose parentId is the id of no node.
ParentlessPositions(nodes) ==
  {i \in DOMAIN nodes :
     nodes[i].parentId \in {Absent, ""} \/ ~HasNode(nodes, nodes[i].parentId)}

\* Positions of the nodes whose parentId is exactly the given id.
ChildPositions(nodes, id) == {i \in DOMAIN nodes : nodes[i].parentId = id}

Shown == ~IsNull(graphData) /\ tree.component # "none"

\* The single-root unwrap applies to the node list: one detected root, named
\* "." or "root", with at least one child.
Unwraps(nodes) ==
  /\ Cardinality(ParentlessPositions(nodes)) = 1
  /\ \A i \in ParentlessPositions(nodes) :
       /\ nodes[i].name \in {".", "root"}
       /\ ChildPositions(nodes, nodes[i].id) # {}

RECURSIVE AncestorPositions(_, _, _)
AncestorPositions(nodes, S, fuel) ==
  LET up == {j \in DOMAIN nodes : \E i \in S : nodes[i].parentId = nodes[j].id}
  IN IF fuel = 0 \/ up \subseteq S THEN S \cup up
     ELSE AncestorPositions(nodes, S \cup up, fuel - 1)

ProperAncestors(nodes, i) ==
  LET first == {j \in DOMAIN nodes : nodes[i].parentId = nodes[j].id}
  IN IF first = {} THEN {} ELSE AncestorPositions(nodes, first, Len(nodes))

AcyclicParents(nodes) == \A i \in DOMAIN nodes : i \notin ProperAncestors(nodes, i)

Occurrences(seq, x) == Cardinality({k \in DOMAIN seq : seq[k] = x})

\* Every node but an unwrapped sentinel root is displayed exactly once, no
\* recursion diverges, and every node with a dangling parentId is at the
\* top level (unless it is the unwrapped sentinel root).
ShowsEveryNodeOnce(nodes) ==
  LET unwrapped == IF tree.component = "part_001" /\ Unwraps(nodes)
                   THEN ParentlessPositions(nodes) ELSE {}
  IN /\ \A k \in DOMAIN tree.rendered : tree.rendered[k] # Diverges
     /\ \A i \in DOMAIN nodes \ unwrapped : Occurrences(tree.rendered, nodes[i].id) = 1
     /\ \A i \in unwrapped : Occurrences(tree.rendered, nodes[i].id) = 0
     /\ Len(tree.rendered) = Len(nodes) - Cardinality(unwrapped)
     /\ \A i \in DOMAIN nodes \ unwrapped :
          (Truthy(nodes[i].parentId) /\ ~HasNode(nodes, nodes[i].parentId))
            => \E k \in DOMAIN tree.rootNodes : tree.rootNodes[k] = nodes[i].id

\* C6 (as claimed): for every graph with unique ids and acyclic parent
\* references the fully open tree shows every node exactly once, orphans at
\* the top level, only an unwrapped sentinel root being absent.
C6_EveryNodeShownOnce ==
  (Shown /\ AcyclicParents(Val(graphData).nodes)) =>
     ShowsEveryNodeOnce(Val(graphData).nodes)

\* C6 (amended): the same for every graph with unique, non-empty ids.
C6_EveryNodeShownOnceWhenIdsAreNonEmpty ==
  (Shown /\ AcyclicParents(Val(graphData).nodes)
         /\ \A i \in DOMAIN Val(graphData).nodes : Val(graphData).nodes[i].id # "") =>
     ShowsEveryNodeOnce(Val(graphData).nodes)

\* A tree of three nodes was rendered in which an orphan with a dangling
\* parentId has a child, next to an ordinary root.
C6_Witness ==
  /\ Shown
  /\ LET nodes == Val(graphData).nodes
     IN /\ Len(nodes) = 3
        /\ \A i \in DOMAIN nodes : nodes[i].id # ""
        /\ nodes[1].parentId = nodes[2].id
        /\ nodes[2].parentId = Ghost
        /\ nodes[3].parentId = Absent
        /\ tree.rendered = <<nodes[2].id, nodes[1].id, nodes[3].id>>

\* ---------------------------------------------------------- export claims
Exported == ~IsNull(graphData) /\ zip.variant # "none"

\* The position of the node with the given id (ids are unique).
PosOf(nodes, id) == CHOOSE j \in DOMAIN nodes : nodes[j].id = id

\* C7 (as claimed): for every node of a graph with unique ids and acyclic
\* parent chains, whatever the names, getPath(node.id) is
\* path(parent) + "/" + node.name when parentId is the id of a node and
\* node.name otherwise.
C7_PathIsParentPathSlashName ==
  (Exported /\ AcyclicParents(Val(graphData).nodes)) =>
    LET nodes == Val(graphData).nodes
    IN /\ ~zip.threw
       /\ \A i \in DOMAIN nodes :
            zip.paths[i] =
              IF HasNode(nodes, nodes[i].parentId)
              THEN zip.paths[PosOf(nodes, nodes[i].parentId)] \o "/" \o nodes[i].name
              ELSE nodes[i].name

\* C7 (amended): for every node of a graph with unique ids and acyclic
\* parent chains, getPath(node.id) is path(parent) + "/" + node.name when
\* parentId is non-empty, is the id of a node and path(parent) is not the
\* empty string, and node.name in every other case; the path under which
\* the node is written is that same string.
C7_PathJoinsNonEmptyParentPath ==
  (Exported /\ AcyclicParents(Val(graphData).nodes)) =>
    LET nodes == Val(graphData).nodes
    IN /\ ~zip.threw
       /\ \A i \in DOMAIN nodes :
            zip.paths[i] =
              IF /\ Truthy(nodes[i].parentId)
                 /\ HasNode(nodes, nodes[i].parentId)
                 /\ zip.paths[PosOf(nodes, nodes[i].parentId)] # ""
              THEN zip.paths[PosOf(nodes, nodes[i].parentId)] \o "/" \o nodes[i].name
              ELSE nodes[i].name
       /\ \A k \in DOMAIN zip.fileCalls :
            zip.fileCalls[k].path = zip.paths[PosOf(nodes, zip.fileCalls[k].id)]

\* Root "src" with child "app.ts" and an orphan with the empty name were
\* exported: the paths are "src/app.ts", "src" and "".
C7_Witness ==
  /\ Exported /\ ~zip.threw
  /\ LET nodes == Val(graphData).nodes
     IN /\ Len(nodes) = 3
        /\ nodes[1].name = "app.ts" /\ nodes[1].parentId = nodes[2].id
        /\ nodes[2].name = "src" /\ nodes[2].parentId = Absent
        /\ nodes[3].name = "" /\ nodes[3].parentId = Ghost
        /\ zip.paths = <<"src/app.ts", "src", "">>

FilePositions(nodes) == {i \in DOMAIN nodes : nodes[i].type = FILE}

FolderPositions(nodes) == {i \in DOMAIN nodes : nodes[i].type \in {FOLDER, SERVICE}}

PathsAt(P) == [k \in 1..Cardinality(P) |-> Pick(zip.paths, P)[k]]

Contains(s, sub) ==
  \E k \in 1..(Len(s) - Len(sub) + 1) : SubSeq(s, k, k + Len(sub) - 1) = sub

\* The body the claim requires for a FILE node.
IsBodyOf(body, node) ==
  IF node.content # Absent
  THEN body = node.content
  ELSE /\ Contains(body, node.name)
       /\ node.description # Absent => Contains(body, node.description)
       /\ \/ SubSeq(body, 1, 2) = "//"
          \/ SubSeq(body, 1, 2) = "/*"

TopLevelLines == {k \in DOMAIN zip.treeString :
                    zip.treeString[k].prefix \in {LastMarker, MidMarker}}

\* C10 (as claimed): every node whose parentId is absent/null or is the id
\* of no node is a top-level entry of the README listing, and for acyclic
\* graphs the listing has every node exactly once.
C10_ListingStartsFromTreeViewRoots ==
  (Exported /\ AcyclicParents(Val(graphData).nodes)) =>
    LET nodes == Val(graphData).nodes
    IN /\ ~zip.threw
       /\ \A i \in DOMAIN nodes :
            (nodes[i].parentId = Absent \/ ~HasNode(nodes, nodes[i].parentId))
              => \E k \in TopLevelLines : zip.treeString[k].id = nodes[i].id
       /\ \A i \in DOMAIN nodes :
            Cardinality({k \in DOMAIN zip.treeString :
                           zip.treeString[k].id = nodes[i].id}) = 1

\* ------------------------------------------------------------- MVP claims
\* The k-th FILE node of the node list, in node-list order.
FileNodes(nodes) == Pick(nodes, FilePositions(nodes))

ContentAfterFullRun(nodes) ==
  \A i \in DOMAIN nodes :
    IF nodes[i].type = FILE
    THEN nodes[i].content \notin {Absent, ""}
    ELSE nodes[i].content = Absent

\* C11: while a generation request is in flight the reported progress is
\* (i, k, name of the i-th FILE node in node-list order) with k the number
\* of FILE nodes; the first report of a run has current = 1, each later one
\* adds 1, the run completes from current = k; and when a run in which every
\* step succeeded has ended, every FILE node has non-empty content and every
\* other node has none.
C11_SequentialProgress ==
  [][LET nodes == Val(graphData).nodes
         k == Cardinality(FilePositions(nodes))
     IN /\ pending' = "code" =>
             /\ ~IsNull(mvpProgress')
             /\ Val(mvpProgress').current \in 1..k
             /\ Val(mvpProgress').total = k
             /\ Val(mvpProgress').file = FileNodes(nodes)[Val(mvpProgress').current].name
             /\ Val(mvp').node = FileNodes(nodes)[Val(mvpProgress').current].id
        /\ (pending # "code" /\ pending' = "code") => Val(mvpProgress').current = 1
        /\ (pending = "code" /\ pending' = "code") =>
             Val(mvpProgress').current = Val(mvpProgress).current + 1
        /\ (pending = "code" /\ lastOp' = "CodeResolved" /\ pending' = "none") =>
             /\ Val(mvpProgress).current = k
             /\ ContentAfterFullRun(Val(graphData').nodes)
        /\ (lastOp' = "handleGenerateMVP" /\ pending' = "none") =>
             /\ k = 0
             /\ ContentAfterFullRun(Val(graphData').nodes)
        /\ pending' # "code" => IsNull(mvpProgress')
    ]_vars

\* A run over FILE, FOLDER, FILE has completed: the first file holds the
\* fallback text, the second the generated code, the folder nothing.
C11_Witness ==
  /\ lastOp = "CodeResolved" /\ pending = "none" /\ IsNull(mvpProgress)
  /\ LET nodes == Val(graphData).nodes
     IN /\ Len(nodes) = 3
        /\ nodes[1].type = FILE /\ nodes[1].content = "// No code generated"
        /\ nodes[2].type = FOLDER /\ nodes[2].content = Absent
        /\ nodes[3].type = FILE /\ nodes[3].content = "code"

\* C12 (as claimed): when the request for the j-th FILE node fails, no
\* further request is issued in that run and the content produced by steps
\* 1..j-1 is in graphData after the run has ended.
C12_PartialProgressRetained ==
  [][(pending = "code" /\ lastOp' = "CodeRejected") =>
       /\ pending' = "none"
       /\ IsNull(mvp')
       /\ \A m \in 1..(Val(mvp).i - 1) :
            LET p == Val(mvp).files[m]
            IN /\ Val(graphData').nodes[p].content = Val(mvp).updatedNodes[p].content
               /\ Val(graphData').nodes[p].content \notin {Absent, ""}
    ]_vars

\* C13: the application has one code-generation request in flight at most:
\* a request is issued either by handleGenerateMVP, which only ever runs
\* when no request is in flight, or by the step that settles the previous
\* request of the same run, for the next file; while a request is in flight
\* the confirmation modal is closed and the progress overlay is up, so
\* neither the Generate MVP button nor the Execute button is available.
C13_OneFileAtATime ==
  [][/\ lastOp' = "handleGenerateMVP" => (pending # "code" /\ IsNull(mvp))
     /\ (pending # "code" /\ pending' = "code") =>
          (lastOp' = "handleGenerateMVP" /\ Val(mvp').i = 1)
     /\ pending = "code" =>
          \/ /\ lastOp' = "CodeResolved"
             /\ pending' = "code"
             /\ Val(mvp').i = Val(mvp).i + 1
             /\ Val(mvp').graphData = Val(mvp).graphData
             /\ Val(mvp').files = Val(mvp).files
          \/ pending' = "none" /\ IsNull(mvp')
          \/ UNCHANGED <<pending, mvp>>
     /\ pending' = "code" =>
          (~showMVPModal' /\ ~IsNull(mvpProgress') /\ ~IsNull(mvp'))
    ]_vars

\* The request for the second file of a run is in flight, issued by the step
\* that settled the first.
C13_Witness ==
  /\ pending = "code" /\ lastOp = "CodeResolved"
  /\ Val(mvp).i = 2 /\ Len(Val(mvp).files) = 2
  /\ Val(mvp).updatedNodes[1].content = "code"

\* The positions of the links of g that have id as source or as target.
IncidentPositions(g, id) ==
  {i \in DOMAIN g.links : g.links[i].source = id \/ g.links[i].target = id}

\* "<name> (<description>)" of the node at the other end of link l from id.
OtherEndEntry(g, l, id) ==
  LET other == g.nodes[PosOf(g.nodes, IF l.source = id THEN l.target ELSE l.source)]
  IN other.name \o " (" \o (IF other.description = Absent THEN "undefined"
                            ELSE other.description) \o ")"

\* C14: the dependency list handed to generateFileCode for FILE node N has,
\* in link order, one entry "<name> (<description>)" of the other endpoint
\* for every link with N.id as source or target, whatever its direction,
\* and nothing else (an absent description is rendered as "undefined").
C14_DependencyContext ==
  pending = "code" =>
    LET g == Val(graphData)
        id == Val(mvp).node
        incident == Pick(g.links, IncidentPositions(g, id))
    IN /\ id = FileNodes(g.nodes)[Val(mvp).i].id
       /\ Val(mvp).dependencies =
            [k \in DOMAIN incident |-> OtherEndEntry(g, incident[k], id)]

\* The request for file a is in flight in a graph with links a->b and b->a:
\* b is listed twice, once per link.
C14_Witness ==
  /\ pending = "code"
  /\ Val(mvp).node = IdOf(1)
  /\ Val(graphData).links = <<LinkData(IdOf(1), IdOf(2)), LinkData(IdOf(2), IdOf(1))>>
  /\ Val(mvp).dependencies = <<"b.ts (entry point)", "b.ts (entry point)">>

\* ---------------------------------------------------------- layout claims
ActiveOn(i) == {p \in Pointers : sim.gestures[p] = i}

\* C15 (as claimed): while a drag gesture on a node is active the node is
\* pinned (fx, fy non-null), right after a drag event the pin is the
\* reported pointer position, and with no gesture active no node is pinned.
C15_PinnedWhileDragged ==
  /\ \A p \in Pointers :
       sim.gestures[p] # 0 => sim.nodes[sim.gestures[p]].pin # NoPoint
  /\ sim.event # NoEvent =>
       sim.nodes[sim.gestures[sim.event.pointer]].pin = sim.event.at
  /\ (\A p \in Pointers : sim.gestures[p] = 0) =>
       \A i \in DOMAIN sim.nodes : sim.nodes[i].pin = NoPoint

\* C15 (amended): drag start pins the node at its current position and each
\* drag event pins it at the reported pointer position; a tick puts a
\* pinned node at its pin; a pin is cleared by a drag end on that node and
\* by nothing else, so a node dragged by one gesture at a time stays pinned
\* from drag start to drag end, and a node without active gesture is never
\* pinned.  (A drag end clears the pin of a node that a second simultaneous
\* gesture still holds, until that gesture's next drag event.)
C15_PinAndRelease ==
  [][/\ \A i \in DOMAIN sim'.nodes :
          /\ ActiveOn(i)' = {} => sim'.nodes[i].pin = NoPoint
          /\ (lastOp' = "tick" /\ sim.nodes[i].pin # NoPoint) =>
               (sim'.nodes[i].pos = sim.nodes[i].pin /\ sim'.nodes[i].pin = sim.nodes[i].pin)
          /\ (sim.nodes[i].pin # NoPoint /\ sim'.nodes[i].pin = NoPoint) =>
               (lastOp' = "dragended" /\ \E p \in Pointers :
                  sim.gestures[p] = i /\ sim'.gestures[p] = 0)
          /\ (Cardinality(ActiveOn(i)) = 1 /\ Cardinality(ActiveOn(i)') = 1
                /\ sim.nodes[i].pin # NoPoint) => sim'.nodes[i].pin # NoPoint
     /\ \A p \in Pointers :
          /\ (sim.gestures[p] = 0 /\ sim'.gestures[p] # 0) =>
               /\ lastOp' = "dragstarted"
               /\ sim'.nodes[sim'.gestures[p]].pin = sim.nodes[sim'.gestures[p]].pos
               /\ sim'.nodes[sim'.gestures[p]].pin # NoPoint
          /\ (sim.gestures[p] # 0 /\ sim'.gestures[p] = 0) =>
               sim'.nodes[sim.gestures[p]].pin = NoPoint
     /\ sim'.event # NoEvent =>
          /\ lastOp' = "dragged"
          /\ sim'.nodes[sim'.gestures[sim'.event.pointer]].pin = sim'.event.at
    ]_vars

\* A node dragged to point 2 has been put there by a tick while the other
\* node moved freely, the gesture still being active.
C15_Witness ==
  /\ lastOp = "tick"
  /\ Len(sim.nodes) = 2
  /\ sim.gestures["touch1"] = 1 /\ sim.gestures["touch2"] = 0
  /\ sim.nodes[1].pin = 2 /\ sim.nodes[1].pos = 2
  /\ sim.nodes[2].pin = NoPoint /\ sim.nodes[2].pos = 1

\* C16 (as claimed): the graphData update that ends an MVP run leaves the
\* simulation and the positions of its nodes as they were.
C16_LayoutSurvivesContentUpdate ==
  [][(pending = "code" /\ lastOp' = "CodeResolved" /\ pending' = "none") =>
       /\ Len(sim'.nodes) = Len(sim.nodes)
       /\ \A i \in DOMAIN sim.nodes : sim'.nodes[i].pos = sim.nodes[i].pos
    ]_vars

\* The simulated nodes whose id is the selected id.
SelectedInSim ==
  IF IsNull(selectedNode) THEN {}
  ELSE {i \in DOMAIN sim.nodes : sim.nodes[i].id = Val(selectedNode).id}

IsPlainGraph(g) ==
  /\ \A i \in DOMAIN g.nodes :
       DOMAIN g.nodes[i] = {"id", "name", "type", "description", "parentId", "content"}
  /\ \A k \in DOMAIN g.links :
       /\ DOMAIN g.links[k] = {"source", "target", "type"}
       /\ \E i \in DOMAIN g.nodes : g.nodes[i].id = g.links[k].source
       /\ \E i \in DOMAIN g.nodes : g.nodes[i].id = g.links[k].target

\* C18: rendering the tree, ticks of the simulation, drag events,
\* selection, focus and export leave graphData as it was: the same nodes
\* and links, no coordinate field on a node, ids in the links.
C18_ViewsLeaveGraphUntouched ==
  [][(lastOp' \in {"tick", "dragstarted", "dragged", "dragended", "SelectNode",
                   "CenterGraph", "RenderFileTree", "handleExportZip"})
       => (IsPlainGraph(Val(graphData')) /\ graphData' = graphData)
    ]_vars

\* The tree was rendered, the archive built, node a focused and dragged, and
\* a tick has moved the nodes of the simulation: the graph still has its
\* link a -> b.
C18_Witness ==
  /\ lastOp = "tick"
  /\ tree.component # "none" /\ zip.variant # "none"
  /\ sim.camera.kind = "focus"
  /\ Len(sim.nodes) = 2
  /\ sim.gestures["touch1"] = 1
  /\ sim.nodes[1].pos = 2 /\ sim.nodes[1].pin = 2 /\ sim.nodes[2].pos = 1
  /\ sim.links = <<[source |-> 1, target |-> 2]>>
  /\ Val(graphData).links = <<LinkData(IdOf(1), IdOf(2))>>

\* ------------------------------------------------ graph mutation claims
SameButContent(a, b) ==
  /\ a.id = b.id /\ a.name = b.name /\ a.type = b.type
  /\ a.description = b.description /\ a.parentId = b.parentId

\* C19: while an MVP run is in progress graphData is the graph the run
\* started from, and the graphData written when the run ends has the same
\* links and, position by position, the same nodes, except for the content
\* of FILE nodes; a node that is not a FILE is the same record.
C19_OnlyContentAssigned ==
  [][/\ pending' = "code" =>
          (graphData' = graphData /\ Val(mvp').graphData = Val(graphData))
     /\ (lastOp' \in {"handleGenerateMVP", "CodeResolved", "CodeRejected"}
           /\ pending' = "none") =>
          LET old == Val(graphData)
              new == Val(graphData')
          IN /\ new.links = old.links
             /\ Len(new.nodes) = Len(old.nodes)
             /\ DOMAIN new = DOMAIN old
             /\ \A i \in DOMAIN old.nodes :
                  /\ DOMAIN new.nodes[i] = DOMAIN old.nodes[i]
                  /\ SameButContent(new.nodes[i], old.nodes[i])
                  /\ old.nodes[i].type # FILE => new.nodes[i] = old.nodes[i]
    ]_vars

\* A run over a graph FOLDER a, FILE b with links a -> b and b -> a has
\* ended: only b's content is new.
C19_Witness ==
  /\ lastOp = "CodeResolved" /\ pending = "none"
  /\ Val(graphData) =
       GraphData(<<NodeData(IdOf(1), "a.ts", FOLDER, "entry point", Absent, Absent),
                   NodeData(IdOf(2), "b.ts", FILE, Absent, Absent, "code")>>,
                 <<LinkData(IdOf(1), IdOf(2)), LinkData(IdOf(2), IdOf(1))>>)

\* C20 (as claimed): a payload whose node list is empty, missing or not a
\* list is ingested as the empty graph and the application goes to
\* VISUALIZATION.
C20_MalformedNodeListGivesEmptyGraph ==
  [][(/\ pending = "blueprint"
      /\ \/ lastOp' = "BlueprintMalformed"
         \/ lastOp' = "BlueprintResolved" /\ Val(data').nodes = <<>>) =>
       /\ phase' = VISUALIZATION
       /\ graphData' = Some(GraphData(<<>>, <<>>))
    ]_vars

\* ------------------------------------------------------------ C21
\* Positions of the nodes that lie on a cycle of parentId references.
OnParentCycle(nodes) == {i \in DOMAIN nodes : i \in ProperAncestors(nodes, i)}

TreeDiverges == \E k \in DOMAIN tree.rendered : tree.rendered[k] = Diverges

ChainRevisits(nodes, i) ==
  \E j \in {i} \cup ProperAncestors(nodes, i) : j \in ProperAncestors(nodes, j)

\* Positions reached from the positions S by the references getPath
\* follows: a parentId that is truthy and is the id of a node.
RECURSIVE FollowedPositions(_, _, _)
FollowedPositions(nodes, S, fuel) ==
  LET up == {j \in DOMAIN nodes :
               \E i \in S : Truthy(nodes[i].parentId) /\ nodes[i].parentId = nodes[j].id}
  IN IF fuel = 0 \/ up \subseteq S THEN S \cup up
     ELSE FollowedPositions(nodes, S \cup up, fuel - 1)

FollowedAncestors(nodes, i) ==
  LET first == {j \in DOMAIN nodes :
                  Truthy(nodes[i].parentId) /\ nodes[i].parentId = nodes[j].id}
  IN IF first = {} THEN {} ELSE FollowedPositions(nodes, first, Len(nodes))

FollowedChainRevisits(nodes, i) ==
  \E j \in {i} \cup FollowedAncestors(nodes, i) : j \in FollowedAncestors(nodes, j)

\* C23 (as claimed): for a graph with unique ids, getPath(n) returns if and
\* only if the parentId chain starting at n never revisits a node; when the
\* chain of some node does, the export produces no archive.
C23_GetPathReturnsIffChainNeverRevisits ==
  Exported =>
    LET nodes == Val(graphData).nodes
    IN /\ \A i \in DOMAIN zip.paths :
            (zip.paths[i] # Diverges) <=> ~ChainRevisits(nodes, i)
       /\ zip.threw <=> \E i \in DOMAIN nodes : ChainRevisits(nodes, i)
       /\ zip.threw => zip.files = <<>> /\ zip.folders = {}

\* C23 (amended): for a graph with unique ids, getPath(n) returns if and
\* only if the chain of non-empty parentId references starting at n never
\* revisits a node (an empty parentId ends the chain even when a node has
\* the empty id); when the chain of some node does, the call for the first
\* such node of the node list never returns and the export produces no
\* archive; otherwise every call returns and the archive is produced.
C23_GetPathReturnsIffFollowedChainNeverRevisits ==
  Exported =>
    LET nodes == Val(graphData).nodes
    IN /\ \A i \in DOMAIN zip.paths :
            (zip.paths[i] # Diverges) <=> ~FollowedChainRevisits(nodes, i)
       /\ zip.threw <=> \E i \in DOMAIN nodes : FollowedChainRevisits(nodes, i)
       /\ zip.threw =>
            /\ zip.files = <<>> /\ zip.folders = {}
            /\ zip.paths # <<>> /\ zip.paths[Len(zip.paths)] = Diverges
       /\ ~zip.threw => Len(zip.paths) = Len(nodes)

\* A root, then a child of a node that is its own parent, were exported:
\* the call for the root returned, the call for the child did not, and
\* there is no archive.
C23_Witness ==
  /\ Exported /\ zip.threw
  /\ LET nodes == Val(graphData).nodes
     IN /\ Len(nodes) = 3
        /\ \A i \in DOMAIN nodes : nodes[i].id # ""
        /\ nodes[1].parentId = Absent
        /\ nodes[2].parentId = nodes[3].id
        /\ nodes[3].parentId = nodes[3].id
        /\ Len(zip.paths) = 2 /\ zip.paths[1] # Diverges /\ zip.paths[2] = Diverges
        /\ zip.files = <<>>

\* ------------------------------------------------------------ C24
ActiveGestures == {p \in Pointers : sim.gestures[p] # 0}

\* C24: across every interleaving of drag start, drag and drag end events
\* of concurrent gestures on one or more nodes, the alpha target of the
\* simulation is the positive reheat level while at least one gesture is
\* active and 0 whenever none is, so after the last release the simulation
\* may cool.
C24_ReheatWhileAGestureIsActive ==
  sim.mounted =>
    /\ AlphaReheat > 0
    /\ sim.alphaTarget = IF ActiveGestures # {} THEN AlphaReheat ELSE 0

\* Of two gestures one has just ended: the other keeps the target at the
\* reheat level.
C24_Witness ==
  /\ lastOp = "dragended"
  /\ Cardinality(ActiveGestures) = 1
  /\ sim.alphaTarget = AlphaReheat

\* ------------------------------------------------------------ C25
\* C25: in every reachable state in which phase is GENERATING, the states
\* restored from storage on mount included, a blueprint request is in
\* flight (so that, every request settling, GENERATING is followed by
\* VISUALIZATION or REFINEMENT).
C25_GeneratingHasARequestInFlight ==
  phase = GENERATING => pending = "blueprint"

\* ------------------------------------------------------------ C26
\* C26: every path that sets isLoading (starting refinement, sending a
\* message, the auto-pilot asking for a proxy answer) sets it back to false
\* once its request has settled, resolved or rejected: in no reachable
\* state is isLoading true with no request pending.
C26_LoadingOnlyWhileARequestIsPending ==
  isLoading => pending \in {"start", "send", "proxy"}

\* ------------------------------------------------------------ C27
\* C27: in every reachable state phase = VISUALIZATION implies that
\* graphData is not null (after successful and failed generations, after
\* failed refinement starts, after a restore on mount), and every
\* persisted snapshot has it too, being written with the phase and the
\* graphData of one render.
C27_VisualizationHasAGraph ==
  /\ phase = VISUALIZATION => ~IsNull(graphData)
  /\ (~IsNull(storage) /\ Val(storage).phase = VISUALIZATION) =>
       ~IsNull(Val(storage).graphData)

\* The page was reloaded on the VISUALIZATION screen: the graph is back.
C27_Witness ==
  /\ lastOp = "Reload"
  /\ phase = VISUALIZATION
  /\ ~IsNull(graphData) /\ Val(graphData).nodes # <<>>
  /\ Val(storage).graphData = graphData

\* ------------------------------------------------------------ C28
\* C28: a change of the selected node alone, with no new focus token,
\* never starts a camera transition, in every state including those after
\* an earlier focus request: the camera is left as it was.
C28_SelectionLeavesTheCamera ==
  [][(lastOp' = "SelectNode" /\ focusTrigger' = focusTrigger) => sim'.camera = sim.camera]_vars

\* ------------------------------------------------------------ C29
\* C29: when a saved state exists at mount, the save effect that runs with
\* the initial default state (phase INPUT, empty idea) does not write over
\* it; once the mount has settled, phase, initialIdea, messages and
\* graphData are the stored values and the stored entry is still the same.
C29_StoredStateSurvivesMount ==
  [][(lastOp' = "Reload" /\ ~IsNull(storage)) =>
       /\ SaveEffect(INPUT, "", <<>>, Null, storage) = storage
       /\ phase' = Val(storage).phase
       /\ initialIdea' = Val(storage).initialIdea
       /\ messages' = Val(storage).messages
       /\ graphData' = Val(storage).graphData
       /\ storage' = storage
    ]_vars

\* The page was reloaded in the middle of the refinement chat, and the
\* chat is back as it was stored.
C29_Witness ==
  /\ lastOp = "Reload"
  /\ phase = REFINEMENT
  /\ messages = <<"user", "model:questions">>
  /\ ~IsNull(storage) /\ Val(storage).messages = messages
  /\ Val(storage).initialIdea = initialIdea /\ initialIdea # ""

\* ------------------------------------------------------------ C30
\* An MVP generation run is in progress: handleGenerateMVP awaits a
\* generateFileCode request.
RunInProgress == ~IsNull(mvp) /\ pending = "code"

\* C30: mvpProgress is non-null exactly while an MVP run is in progress;
\* while non-null, 0 <= current <= total and total is the number of FILE
\* nodes of the graph at the start of the run; it is null again when the
\* run has ended, by success or by a failed step, so that, every request
\* settling, the progress overlay is always eventually removed.
C30_ProgressLifecycle ==
  /\ [](~IsNull(mvpProgress) <=> RunInProgress)
  /\ [](~IsNull(mvpProgress) =>
          /\ 0 <= Val(mvpProgress).current
          /\ Val(mvpProgress).current <= Val(mvpProgress).total
          /\ Val(mvpProgress).total = Cardinality(FilePositions(Val(mvp).graphData.nodes))
          /\ Val(mvp).graphData = Val(graphData))
  /\ [][(~IsNull(mvpProgress) /\ lastOp' \in {"CodeRejected", "Reload"}) =>
          IsNull(mvpProgress')]_vars
  /\ (~IsNull(mvpProgress) ~> IsNull(mvpProgress))

\* The second of three files is being generated.
C30_Witness ==
  /\ ~IsNull(mvpProgress)
  /\ Val(mvpProgress).current = 2 /\ Val(mvpProgress).total = 3
  /\ Cardinality(FilePositions(Val(graphData).nodes)) = 3
  /\ pending = "code"

====
